---- MODULE Spec2Model ----
(***************************************************************************)
(* Model of the zain_center rental bookkeeping application: the client     *)
(* page component (its data snapshot, the tab handlers, invoice            *)
(* generation, the currency converter) and the persistence gateway it      *)
(* calls.                                                                  *)
(*                                                                         *)
(* Numbers.  A JavaScript number is modelled as an extended rational       *)
(* [n, d]: a finite value has d > 0 and is kept in lowest terms, a         *)
(* division by zero gives d = 0 (n = 0 is NaN, n = 1 / -1 the infinities). *)
(* Rounding of doubles is not modelled: "within tolerance" reads as        *)
(* equality of the exact values.                                           *)
(*                                                                         *)
(* Strings.  A period string is a sequence of one-character strings, so    *)
(* that slice and startsWith are computed on characters as the code does.  *)
(*                                                                         *)
(* Records.  Fields that no modelled code reads (name, phone, startDate,   *)
(* type, date, note, the payment's period) are left out of the records.    *)
(***************************************************************************)
EXTENDS Integers, Sequences, FiniteSets, TLC

VARIABLES
  data,      \* the page's data snapshot (useState<AppData>)
  cache,     \* localStorage "zc_data_v1", the mirror of data
  remote,    \* the owner's rows in the remote store, one set per table
  inflight,  \* asynchronous calls issued and not yet settled
  rateLast,  \* localStorage "zc_rate_last" as a number, 0 when absent
  now,       \* Date.now()
  last,      \* the operation that produced this state, with its arguments
  cv,        \* the converter's inputs and results (converter specification)
  syncMsg,   \* the message shown beside the backup and rate buttons (useState syncMsg)
  session,   \* the user id of the signed-in session (supabase.auth), NoUser when signed out
  route      \* the request served by the rate route and its response (route specification)

vars == <<data, cache, remote, inflight, rateLast, now, last, cv, syncMsg, session, route>>

----------------------------------------------------------------------------
(* Bounds of the model *)

\* size of each id pool: at most this many units (tenants, ...) exist at once
MaxUnits == 2
MaxTenants == 2
MaxUtilities == 2
MaxInvoices == 2
MaxPayments == 1

----------------------------------------------------------------------------
(* Numbers *)

Abs(x) == IF x < 0 THEN -x ELSE x

RECURSIVE GCD(_, _)
GCD(a, b) == IF b = 0 THEN a ELSE GCD(b, a % b)

\* the number n/d in lowest terms with a positive denominator; d = 0 keeps the sign only
Norm(n, d) ==
  IF d = 0 THEN [n |-> IF n > 0 THEN 1 ELSE IF n < 0 THEN -1 ELSE 0, d |-> 0]
  ELSE LET g == GCD(Abs(n), Abs(d))
           s == IF d < 0 THEN -1 ELSE 1
       IN [n |-> (s * n) \div g, d |-> (s * d) \div g]

Num(i) == [n |-> i, d |-> 1]
NaN == [n |-> 0, d |-> 0]
IsFinite(x) == x.d > 0

JsAdd(x, y) == IF x.d = 0 \/ y.d = 0
               THEN (IF x.d = 0 /\ y.d = 0 /\ x.n # y.n THEN NaN
                     ELSE IF x.d = 0 THEN x ELSE y)
               ELSE Norm(x.n * y.d + y.n * x.d, x.d * y.d)
JsMul(x, y) == Norm(x.n * y.n, x.d * y.d)
JsDiv(x, y) == Norm(x.n * y.d, x.d * y.n)

\* JavaScript truthiness of a number: 0 and NaN are falsy
Falsy(x) == x.n = 0

----------------------------------------------------------------------------
(* Strings *)

Min(a, b) == IF a < b THEN a ELSE b

\* s.slice(0, k)
Slice0(s, k) == SubSeq(s, 1, Min(k, Len(s)))
\* s.startsWith(p)
StartsWith(s, p) == Len(p) <= Len(s) /\ SubSeq(s, 1, Len(p)) = p

P2024_01 == <<"2", "0", "2", "4", "-", "0", "1">>
P2024_02 == <<"2", "0", "2", "4", "-", "0", "2">>
P2025_01 == <<"2", "0", "2", "5", "-", "0", "1">>
P2024 == <<"2", "0", "2", "4">>

\* the periods a generation is requested for (the month input, or `${year}-01`)
RequestPeriods == {P2024_01, P2025_01}
\* the periods a utility charge is entered with (YYYY-MM, or YYYY)
UtilityPeriods == {P2024_01, P2024_02, P2025_01, P2024}

----------------------------------------------------------------------------
(* Types and defaults *)

Currency == {"JOD", "ILS"}
UnitKind == {"apartment", "shop"}
Scope == {"monthly", "yearly"}

DefaultRate == 5

DEFAULT_DATA ==
  [settings |-> [baseCurrency |-> "JOD", jodToIlsRate |-> Num(DefaultRate)],
   units |-> <<>>, tenants |-> <<>>, utilities |-> <<>>,
   invoices |-> <<>>, payments |-> <<>>]

----------------------------------------------------------------------------
(* Currency converter *)

\* settings.jodToIlsRate || 5 ; a settings object without the field reads undefined
\* (variant: the stored rate is used as it is)
RateOfNoDefault(settings) ==
  IF "jodToIlsRate" \in DOMAIN settings THEN settings.jodToIlsRate ELSE Num(0)

RateOf(settings) ==
  IF "jodToIlsRate" \in DOMAIN settings /\ ~Falsy(settings.jodToIlsRate)
  THEN settings.jodToIlsRate
  ELSE Num(DefaultRate)

\* (variant: the shekel branch tests the wrong currency)
convertToBaseWrongTest(amount, from, settings) ==
  LET rate == RateOf(settings) IN
  IF settings.baseCurrency = "JOD"
  THEN (IF from = "JOD" THEN amount ELSE JsDiv(amount, rate))
  ELSE (IF from = "JOD" THEN amount ELSE JsMul(amount, rate))

\* (variant: the two directions are exchanged)
convertToBaseInverted(amount, from, settings) ==
  LET rate == RateOf(settings) IN
  IF settings.baseCurrency = "JOD"
  THEN (IF from = "JOD" THEN amount ELSE JsMul(amount, rate))
  ELSE (IF from = "ILS" THEN amount ELSE JsDiv(amount, rate))

\* (variant: the dinar branch rounds the quotient down to a whole number)
convertToBaseTruncating(amount, from, settings) ==
  LET rate == RateOf(settings) IN
  IF settings.baseCurrency = "JOD"
  THEN (IF from = "JOD" THEN amount
        ELSE LET q == JsDiv(amount, rate) IN IF q.d > 0 THEN Num(q.n \div q.d) ELSE q)
  ELSE (IF from = "ILS" THEN amount ELSE JsMul(amount, rate))

convertToBase(amount, from, settings) ==
  LET rate == RateOf(settings) IN
  IF settings.baseCurrency = "JOD"
  THEN (IF from = "JOD" THEN amount ELSE JsDiv(amount, rate))
  ELSE (IF from = "ILS" THEN amount ELSE JsMul(amount, rate))

----------------------------------------------------------------------------
(* Sequences *)

Range(s) == {s[i] : i \in DOMAIN s}
Ids(s) == {s[i].id : i \in DOMAIN s}

\* all the orders in which the elements of a finite set can be listed
Orders(S) ==
  {q \in [1..Cardinality(S) -> S] : \A i, j \in 1..Cardinality(S) : i # j => q[i] # q[j]}

\* s.reduce((acc, x) => acc + x, 0) over a sequence of numbers
RECURSIVE SumFrom(_, _, _)
SumFrom(acc, s, i) == IF i > Len(s) THEN acc ELSE SumFrom(JsAdd(acc, s[i]), s, i + 1)

----------------------------------------------------------------------------
(* Persistence gateway: rows of the store and the application's records *)

UnitRow(u) == [id |-> u.id, kind |-> u.kind, rent_amount |-> u.rentAmount,
               rent_currency |-> u.rentCurrency]
TenantRow(t) == [id |-> t.id, unit_id |-> t.unitId, active |-> t.active]
UtilityRow(u) == [id |-> u.id, unit_id |-> u.unitId, period |-> u.period,
                  amount |-> u.amount, currency |-> u.currency]
InvoiceRow(i) == [id |-> i.id, unit_id |-> i.unitId, tenant_id |-> i.tenantId,
                  period |-> i.period, scope |-> i.scope, rent_base |-> i.rentBase,
                  utilities_base |-> i.utilitiesBase, total_base |-> i.totalBase]
PaymentRow(p) == [id |-> p.id, tenant_id |-> p.tenantId, unit_id |-> p.unitId,
                  amount |-> p.amount, currency |-> p.currency]

UnitOfRow(r) == [id |-> r.id, kind |-> r.kind, rentAmount |-> r.rent_amount,
                 rentCurrency |-> r.rent_currency]
TenantOfRow(r) == [id |-> r.id, unitId |-> r.unit_id, active |-> r.active]
UtilityOfRow(r) == [id |-> r.id, unitId |-> r.unit_id, period |-> r.period,
                    amount |-> r.amount, currency |-> r.currency]
InvoiceOfRow(r) == [id |-> r.id, unitId |-> r.unit_id, tenantId |-> r.tenant_id,
                    period |-> r.period, scope |-> r.scope, rentBase |-> r.rent_base,
                    utilitiesBase |-> r.utilities_base, totalBase |-> r.total_base]
PaymentOfRow(r) == [id |-> r.id, tenantId |-> r.tenant_id, unitId |-> r.unit_id,
                    amount |-> r.amount, currency |-> r.currency]

SettingsRow(base, rate) == [base_currency |-> base, jod_to_ils_rate |-> rate]

\* no settings row and six empty tables
EmptyRemote == [settings |-> {}, units |-> {}, tenants |-> {}, utilities |-> {},
                invoices |-> {}, payments |-> {}]

\* a gateway call in flight
Call(fn, tbl, id, arg) == [fn |-> fn, tbl |-> tbl, id |-> id, arg |-> arg]

\* a variant in which deleting a unit or a tenant also deletes the rows that reference it
dbApplyCascading(r, c) ==
  CASE c.fn = "dbDeleteUnit" ->
         [r EXCEPT !.units = {x \in @ : x.id # c.id},
                   !.tenants = {x \in @ : x.unit_id # c.id},
                   !.utilities = {x \in @ : x.unit_id # c.id},
                   !.invoices = {x \in @ : x.unit_id # c.id},
                   !.payments = {x \in @ : x.unit_id # c.id}]
    [] c.fn = "dbDeleteTenant" ->
         [r EXCEPT !.tenants = {x \in @ : x.id # c.id},
                   !.invoices = {x \in @ : x.tenant_id # c.id},
                   !.payments = {x \in @ : x.tenant_id # c.id}]
    [] c.fn = "dbUpsertSettings" -> [r EXCEPT !.settings = {c.arg}]
    [] c.fn \in {"dbInsertUnit", "dbInsertTenant", "dbInsertUtility",
                 "dbInsertInvoice", "dbInsertPayment"} ->
         [r EXCEPT ![c.tbl] = @ \cup {c.arg}]
    [] OTHER -> r

\* the effect of a gateway write on the store once it succeeds
dbApply(r, c) ==
  CASE c.fn = "dbUpsertSettings" -> [r EXCEPT !.settings = {c.arg}]
    [] c.fn \in {"dbInsertUnit", "dbInsertTenant", "dbInsertUtility",
                 "dbInsertInvoice", "dbInsertPayment"} ->
         [r EXCEPT ![c.tbl] = @ \cup {c.arg}]
    [] c.fn \in {"dbDeleteUnit", "dbDeleteTenant", "dbDeleteUtility",
                 "dbDeleteInvoice", "dbDeletePayment"} ->
         [r EXCEPT ![c.tbl] = {x \in @ : x.id # c.id}]
    [] c.fn = "dbToggleTenantActive" ->
         [r EXCEPT !.tenants = {IF x.id = c.id THEN [x EXCEPT !.active = c.arg.active] ELSE x
                                : x \in @}]
    [] OTHER -> r

----------------------------------------------------------------------------
(* Identity: every gateway function first asks the session for its user id. *)

NoUser == "none"
Owner == "owner"
Other == "other"
Users == {Owner, Other}

\* a variant that falls back to a fixed owner id when nobody is signed in
getCurrentUserIdDefaulting(s) ==
  IF s = NoUser THEN [throws |-> FALSE, id |-> Owner] ELSE [throws |-> FALSE, id |-> s]

\* getCurrentUserId: the id of the signed-in user; it throws when there is none
getCurrentUserId(s) ==
  IF s = NoUser THEN [throws |-> TRUE] ELSE [throws |-> FALSE, id |-> s]

\* the row as the gateway sends it: the columns of the record and the owner's id
Scoped(ownerId, row) ==
  [k \in DOMAIN row \cup {"owner_id"} |-> IF k = "owner_id" THEN ownerId ELSE row[k]]

\* the effect of a gateway write on a store that holds the rows of every owner:
\* an upsert replaces the owner's settings row (onConflict owner_id), an insert adds
\* the row with the owner's id, a delete or update matches the row id and the owner's id
dbWrite(store, ownerId, c) ==
  CASE c.fn = "dbUpsertSettings" ->
         [store EXCEPT !.settings = {x \in @ : x.owner_id # ownerId} \cup {Scoped(ownerId, c.arg)}]
    [] c.fn \in {"dbInsertUnit", "dbInsertTenant", "dbInsertUtility",
                 "dbInsertInvoice", "dbInsertPayment"} ->
         [store EXCEPT ![c.tbl] = @ \cup {Scoped(ownerId, c.arg)}]
    [] c.fn \in {"dbDeleteUnit", "dbDeleteTenant", "dbDeleteUtility",
                 "dbDeleteInvoice", "dbDeletePayment"} ->
         [store EXCEPT ![c.tbl] = {x \in @ : ~ (x.id = c.id /\ x.owner_id = ownerId)}]
    [] c.fn = "dbToggleTenantActive" ->
         [store EXCEPT !.tenants = {IF x.id = c.id /\ x.owner_id = ownerId
                                    THEN [x EXCEPT !.active = c.arg.active] ELSE x : x \in @}]
    [] OTHER -> store

\* one gateway write, from its call to its result: without an identity it throws
\* before anything is sent; with one the store applies the write or reports an error
gatewayWrite(c) ==
  /\ LET who == getCurrentUserId(session)
     IN IF who.throws
        THEN /\ remote' = remote
             /\ last' = [op |-> "gatewayWrite", call |-> c, result |-> "unauthorized"]
        ELSE \/ /\ remote' = dbWrite(remote, who.id, c)
                /\ last' = [op |-> "gatewayWrite", call |-> c, result |-> "written",
                            owner |-> who.id]
             \/ /\ remote' = remote
                /\ last' = [op |-> "gatewayWrite", call |-> c, result |-> "error"]
  /\ UNCHANGED <<data, cache, inflight, rateLast, now, cv, syncMsg, session, route>>

\* signInWithPassword succeeds for a user
signIn(u) ==
  /\ session = NoUser
  /\ session' = u
  /\ last' = [op |-> "signIn"]
  /\ UNCHANGED <<data, cache, remote, inflight, rateLast, now, cv, syncMsg, route>>

signOut ==
  /\ session # NoUser
  /\ session' = NoUser
  /\ last' = [op |-> "signOut"]
  /\ UNCHANGED <<data, cache, remote, inflight, rateLast, now, cv, syncMsg, route>>

----------------------------------------------------------------------------
(* Identifiers: uid() draws a random identifier; the model takes the least  *)
(* identifier of the table's pool that is in use nowhere (local state, the  *)
(* store, a call in flight).                                                *)

PoolSize(tbl) ==
  CASE tbl = "units" -> MaxUnits
    [] tbl = "tenants" -> MaxTenants
    [] tbl = "utilities" -> MaxUtilities
    [] tbl = "invoices" -> MaxInvoices
    [] tbl = "payments" -> MaxPayments

UsedIds(tbl) ==
  Ids(data[tbl]) \cup {x.id : x \in remote[tbl]} \cup {c.id : c \in {x \in inflight : x.tbl = tbl}}

FreeIds(tbl) == (1..PoolSize(tbl)) \ UsedIds(tbl)

\* the k least free identifiers of a table, in increasing order
RECURSIVE LeastOf(_, _)
LeastOf(S, k) ==
  IF k = 0 THEN <<>>
  ELSE LET m == CHOOSE x \in S : \A y \in S : x <= y
       IN <<m>> \o LeastOf(S \ {m}, k - 1)

uid(tbl) == LeastOf(FreeIds(tbl), 1)[1]

----------------------------------------------------------------------------
(* Page component: what every handler does with its result *)

DayMs == 24 * 60 * 60 * 1000

\* syncMsg: null, the success text of autoFetchRate, the text of a caught error
NoMsg == "null"
\* no request has been served by the rate route
NoRoute == [pc |-> "none"]
RateUpdatedMsg == "rate updated"
ErrorMsg == "error"

\* the daily refresh effect, run at mount and whenever the base currency changes:
\* when the timestamp is absent or older than a day it starts a rate fetch
\* a variant without the 24-hour gate
dailyEffectUngated(d) ==
  {[fn |-> "fetchJodIlsRate", tbl |-> "settings", id |-> 0,
    arg |-> [by |-> "daily", base |-> d.settings.baseCurrency, now |-> now]]}

dailyEffect(d) ==
  IF rateLast = 0 \/ now - rateLast > DayMs
  THEN {[fn |-> "fetchJodIlsRate", tbl |-> "settings", id |-> 0,
         arg |-> [by |-> "daily", base |-> d.settings.baseCurrency, now |-> now]]}
  ELSE {}

\* setData(d2), the calls the handler then issues, and the cache mirror effect
Commit(d2, calls, op) ==
  /\ data' = d2
  /\ cache' = d2
  /\ inflight' = inflight \cup calls
  /\ last' = op
  /\ UNCHANGED <<remote, rateLast, now, cv, session, route, syncMsg>>

----------------------------------------------------------------------------
(* Units tab *)

addUnit(kind, rentAmount, rentCurrency) ==
  /\ FreeIds("units") # {}
  /\ LET unit == [id |-> uid("units"), kind |-> kind, rentAmount |-> rentAmount,
                  rentCurrency |-> rentCurrency]
     IN Commit([data EXCEPT !.units = <<unit>> \o @],
               {Call("dbInsertUnit", "units", unit.id, UnitRow(unit))},
               [op |-> "addUnit", id |-> unit.id])

\* (variant: the payments are not filtered)
removeUnitKeepsPayments(d, id) ==
  [d EXCEPT !.units = SelectSeq(@, LAMBDA u : u.id # id),
            !.tenants = SelectSeq(@, LAMBDA t : t.unitId # id),
            !.utilities = SelectSeq(@, LAMBDA u : u.unitId # id),
            !.invoices = SelectSeq(@, LAMBDA i : i.unitId # id)]

\* the snapshot after removeUnit's setData
removeUnitData(d, id) ==
  [d EXCEPT !.units = SelectSeq(@, LAMBDA u : u.id # id),
            !.tenants = SelectSeq(@, LAMBDA t : t.unitId # id),
            !.utilities = SelectSeq(@, LAMBDA u : u.unitId # id),
            !.invoices = SelectSeq(@, LAMBDA i : i.unitId # id),
            !.payments = SelectSeq(@, LAMBDA p : p.unitId # id)]

removeUnit(id) ==
  /\ id \in Ids(data.units)
  /\ Commit(removeUnitData(data, id),
            {Call("dbDeleteUnit", "units", id, [id |-> id])},
            [op |-> "removeUnit", id |-> id])

----------------------------------------------------------------------------
(* Tenants tab *)

addTenant(unitId, active) ==
  /\ FreeIds("tenants") # {}
  /\ unitId \in Ids(data.units)
  /\ LET tenant == [id |-> uid("tenants"), unitId |-> unitId, active |-> active]
     IN Commit([data EXCEPT !.tenants = <<tenant>> \o @],
               {Call("dbInsertTenant", "tenants", tenant.id, TenantRow(tenant))},
               [op |-> "addTenant", id |-> tenant.id])

toggleActive(id) ==
  /\ id \in Ids(data.tenants)
  /\ LET found == SelectSeq(data.tenants, LAMBDA t : t.id = id)
         next == ~ found[1].active
         flip(t) == IF t.id = id THEN [t EXCEPT !.active = ~ t.active] ELSE t
     IN Commit([data EXCEPT !.tenants = [i \in DOMAIN data.tenants |-> flip(data.tenants[i])]],
               {Call("dbToggleTenantActive", "tenants", id, [active |-> next])},
               [op |-> "toggleActive", id |-> id])

\* a variant that forgets the tenant's payments
removeTenantKeepsPayments(d, id) ==
  [d EXCEPT !.tenants = SelectSeq(@, LAMBDA t : t.id # id),
            !.invoices = SelectSeq(@, LAMBDA i : i.tenantId # id)]

removeTenantData(d, id) ==
  [d EXCEPT !.tenants = SelectSeq(@, LAMBDA t : t.id # id),
            !.invoices = SelectSeq(@, LAMBDA i : i.tenantId # id),
            !.payments = SelectSeq(@, LAMBDA p : p.tenantId # id)]

removeTenant(id) ==
  /\ id \in Ids(data.tenants)
  /\ Commit(removeTenantData(data, id),
            {Call("dbDeleteTenant", "tenants", id, [id |-> id])},
            [op |-> "removeTenant", id |-> id])

----------------------------------------------------------------------------
(* Utilities tab *)

addUtility(unitId, period, amount, currency) ==
  /\ FreeIds("utilities") # {}
  /\ unitId \in Ids(data.units)
  /\ LET u == [id |-> uid("utilities"), unitId |-> unitId, period |-> period,
               amount |-> amount, currency |-> currency]
     IN Commit([data EXCEPT !.utilities = <<u>> \o @],
               {Call("dbInsertUtility", "utilities", u.id, UtilityRow(u))},
               [op |-> "addUtility", id |-> u.id])

removeUtility(id) ==
  /\ id \in Ids(data.utilities)
  /\ Commit([data EXCEPT !.utilities = SelectSeq(@, LAMBDA u : u.id # id)],
            {Call("dbDeleteUtility", "utilities", id, [id |-> id])},
            [op |-> "removeUtility", id |-> id])

----------------------------------------------------------------------------
(* Invoices tab *)

NoFilter == 0

\* unitsById: a map filled in list order, so the last unit of an id is the one kept
HasUnit(d, id) == id \in Ids(d.units)
GetUnit(d, id) ==
  LET idx == {i \in DOMAIN d.units : d.units[i].id = id}
  IN d.units[CHOOSE i \in idx : \A j \in idx : j <= i]

\* (variant: the unit's kind is not compared with the scope)
eligibleIgnoringKind(d, scope, tenantFilter) ==
  LET list == SelectSeq(d.tenants, LAMBDA t : t.active)
      filtered == SelectSeq(list, LAMBDA t : HasUnit(d, t.unitId))
  IN IF tenantFilter # NoFilter
     THEN SelectSeq(filtered, LAMBDA t : t.id = tenantFilter)
     ELSE filtered

eligibleTenants(d, scope, tenantFilter) ==
  LET list == SelectSeq(d.tenants, LAMBDA t : t.active)
      keep(t) ==
        IF ~ HasUnit(d, t.unitId) THEN FALSE
        ELSE IF scope = "monthly" /\ GetUnit(d, t.unitId).kind # "apartment" THEN FALSE
        ELSE IF scope = "yearly" /\ GetUnit(d, t.unitId).kind # "shop" THEN FALSE
        ELSE TRUE
      filtered == SelectSeq(list, keep)
  IN IF tenantFilter # NoFilter
     THEN SelectSeq(filtered, LAMBDA t : t.id = tenantFilter)
     ELSE filtered

\* (variant: the period is compared exactly whatever the scope)
sumUtilitiesExactPeriod(d, unitId, periodStr, scopeSel) ==
  LET mine == SelectSeq(d.utilities, LAMBDA u : u.unitId = unitId)
      matching == SelectSeq(mine, LAMBDA u : u.period = periodStr)
      converted == [i \in DOMAIN matching |->
                      convertToBase(matching[i].amount, matching[i].currency, d.settings)]
  IN SumFrom(Num(0), converted, 1)

\* (variant: the year is compared whatever the scope)
sumUtilitiesYearPrefix(d, unitId, periodStr, scopeSel) ==
  LET mine == SelectSeq(d.utilities, LAMBDA u : u.unitId = unitId)
      matching == SelectSeq(mine, LAMBDA u : StartsWith(u.period, Slice0(periodStr, 4)))
      converted == [i \in DOMAIN matching |->
                      convertToBase(matching[i].amount, matching[i].currency, d.settings)]
  IN SumFrom(Num(0), converted, 1)

sumUtilitiesBase(d, unitId, periodStr, scopeSel) ==
  LET periodFilter(u) ==
        IF scopeSel = "monthly" THEN u.period = periodStr
        ELSE LET year == Slice0(periodStr, 4) IN StartsWith(u.period, year)
      mine == SelectSeq(d.utilities, LAMBDA u : u.unitId = unitId)
      matching == SelectSeq(mine, periodFilter)
      converted == [i \in DOMAIN matching |->
                      convertToBase(matching[i].amount, matching[i].currency, d.settings)]
  IN SumFrom(Num(0), converted, 1)

\* (variant: the total leaves the utilities out)
newInvoicesRentOnly(d, scope, period, tenantFilter, ids) ==
  LET tenants == eligibleTenants(d, scope, tenantFilter)
      scopePeriod == IF scope = "monthly" THEN period ELSE Slice0(period, 4)
      make(i) ==
        LET t == tenants[i]
            unit == GetUnit(d, t.unitId)
            rentBase == JsMul(convertToBase(unit.rentAmount, unit.rentCurrency, d.settings), Num(1))
            utilitiesBase == sumUtilitiesBase(d, unit.id, period, scope)
        IN [id |-> ids[i], unitId |-> unit.id, tenantId |-> t.id, period |-> scopePeriod,
            scope |-> scope, rentBase |-> rentBase, utilitiesBase |-> utilitiesBase,
            totalBase |-> rentBase]
  IN [i \in 1..Len(tenants) |-> make(i)]

\* a variant with a duplicate guard: a tenant who has an invoice of this period and
\* scope gets no second one
newInvoicesOncePerPeriod(d, scope, period, tenantFilter, ids) ==
  LET scopePeriod == IF scope = "monthly" THEN period ELSE Slice0(period, 4)
      tenants == SelectSeq(eligibleTenants(d, scope, tenantFilter),
                           LAMBDA t : ~ \E x \in Range(d.invoices) :
                                        x.tenantId = t.id /\ x.period = scopePeriod
                                        /\ x.scope = scope)
      make(i) ==
        LET t == tenants[i]
            unit == GetUnit(d, t.unitId)
            rentBase == JsMul(convertToBase(unit.rentAmount, unit.rentCurrency, d.settings), Num(1))
            utilitiesBase == sumUtilitiesBase(d, unit.id, period, scope)
            totalBase == JsAdd(rentBase, utilitiesBase)
        IN [id |-> ids[i], unitId |-> unit.id, tenantId |-> t.id, period |-> scopePeriod,
            scope |-> scope, rentBase |-> rentBase, utilitiesBase |-> utilitiesBase,
            totalBase |-> totalBase]
  IN [i \in 1..Len(tenants) |-> make(i)]

\* a variant that stores the requested period as it is, whatever the scope
newInvoicesFullPeriod(d, scope, period, tenantFilter, ids) ==
  LET tenants == eligibleTenants(d, scope, tenantFilter)
      make(i) ==
        LET t == tenants[i]
            unit == GetUnit(d, t.unitId)
            rentBase == JsMul(convertToBase(unit.rentAmount, unit.rentCurrency, d.settings), Num(1))
            utilitiesBase == sumUtilitiesBase(d, unit.id, period, scope)
            totalBase == JsAdd(rentBase, utilitiesBase)
        IN [id |-> ids[i], unitId |-> unit.id, tenantId |-> t.id, period |-> period,
            scope |-> scope, rentBase |-> rentBase, utilitiesBase |-> utilitiesBase,
            totalBase |-> totalBase]
  IN [i \in 1..Len(tenants) |-> make(i)]

\* the invoices generateInvoices builds, given the identifiers uid() returns
newInvoices(d, scope, period, tenantFilter, ids) ==
  LET tenants == eligibleTenants(d, scope, tenantFilter)
      scopePeriod == IF scope = "monthly" THEN period ELSE Slice0(period, 4)
      make(i) ==
        LET t == tenants[i]
            unit == GetUnit(d, t.unitId)
            rentBase == JsMul(convertToBase(unit.rentAmount, unit.rentCurrency, d.settings), Num(1))
            utilitiesBase == sumUtilitiesBase(d, unit.id, period, scope)
            totalBase == JsAdd(rentBase, utilitiesBase)
        IN [id |-> ids[i], unitId |-> unit.id, tenantId |-> t.id, period |-> scopePeriod,
            scope |-> scope, rentBase |-> rentBase, utilitiesBase |-> utilitiesBase,
            totalBase |-> totalBase]
  IN [i \in 1..Len(tenants) |-> make(i)]

\* a variant that puts the new invoices after the existing ones
generateInvoicesAppending(scope, period, tenantFilter) ==
  LET k == Len(eligibleTenants(data, scope, tenantFilter)) IN
  /\ Cardinality(FreeIds("invoices")) >= k
  /\ LET created == newInvoices(data, scope, period, tenantFilter, LeastOf(FreeIds("invoices"), k))
     IN Commit([data EXCEPT !.invoices = @ \o created],
               {Call("dbInsertInvoice", "invoices", created[i].id, InvoiceRow(created[i]))
                  : i \in DOMAIN created},
               [op |-> "generateInvoices", scope |-> scope, period |-> period,
                filter |-> tenantFilter])

generateInvoices(scope, period, tenantFilter) ==
  LET k == Len(eligibleTenants(data, scope, tenantFilter)) IN
  /\ Cardinality(FreeIds("invoices")) >= k
  /\ LET created == newInvoices(data, scope, period, tenantFilter, LeastOf(FreeIds("invoices"), k))
     IN Commit([data EXCEPT !.invoices = created \o @],
               {Call("dbInsertInvoice", "invoices", created[i].id, InvoiceRow(created[i]))
                  : i \in DOMAIN created},
               [op |-> "generateInvoices", scope |-> scope, period |-> period,
                filter |-> tenantFilter])

removeInvoice(id) ==
  /\ id \in Ids(data.invoices)
  /\ Commit([data EXCEPT !.invoices = SelectSeq(@, LAMBDA i : i.id # id)],
            {Call("dbDeleteInvoice", "invoices", id, [id |-> id])},
            [op |-> "removeInvoice", id |-> id])

----------------------------------------------------------------------------
(* Payments tab *)

addPayment(tenantId, amount, currency) ==
  /\ FreeIds("payments") # {}
  /\ tenantId \in Ids(data.tenants)
  /\ LET tenant == SelectSeq(data.tenants, LAMBDA t : t.id = tenantId)[1]
         payment == [id |-> uid("payments"), tenantId |-> tenantId, unitId |-> tenant.unitId,
                     amount |-> amount, currency |-> currency]
     IN Commit([data EXCEPT !.payments = <<payment>> \o @],
               {Call("dbInsertPayment", "payments", payment.id, PaymentRow(payment))},
               [op |-> "addPayment", id |-> payment.id])

removePayment(id) ==
  /\ id \in Ids(data.payments)
  /\ Commit([data EXCEPT !.payments = SelectSeq(@, LAMBDA p : p.id # id)],
            {Call("dbDeletePayment", "payments", id, [id |-> id])},
            [op |-> "removePayment", id |-> id])

----------------------------------------------------------------------------
(* Settings tab *)

updateBaseCurrency(next) ==
  /\ next # data.settings.baseCurrency
  /\ LET d2 == [data EXCEPT !.settings.baseCurrency = next]
     IN Commit(d2,
               {Call("dbUpsertSettings", "settings", 0,
                     SettingsRow(next, data.settings.jodToIlsRate))} \cup dailyEffect(d2),
               [op |-> "updateBaseCurrency"])

\* a variant that converts the stored invoices again under the new rate
updateExchangeRateRecomputing(next) ==
  LET rate == IF Falsy(next) THEN Num(0) ELSE next
      st == [data.settings EXCEPT !.jodToIlsRate = rate]
      again(inv) ==
        IF HasUnit(data, inv.unitId)
        THEN LET unit == GetUnit(data, inv.unitId)
                 rentBase == convertToBase(unit.rentAmount, unit.rentCurrency, st)
             IN [inv EXCEPT !.rentBase = rentBase,
                            !.totalBase = JsAdd(rentBase, inv.utilitiesBase)]
        ELSE inv
  IN Commit([data EXCEPT !.settings = st,
                         !.invoices = [i \in DOMAIN data.invoices |-> again(data.invoices[i])]],
            {Call("dbUpsertSettings", "settings", 0,
                  SettingsRow(data.settings.baseCurrency, rate))},
            [op |-> "updateExchangeRate"])

updateExchangeRate(next) ==
  LET rate == IF Falsy(next) THEN Num(0) ELSE next
  IN Commit([data EXCEPT !.settings.jodToIlsRate = rate],
            {Call("dbUpsertSettings", "settings", 0,
                  SettingsRow(data.settings.baseCurrency, rate))},
            [op |-> "updateExchangeRate"])

\* setSyncMsg(null), then the provider is asked
autoFetchRate ==
  /\ syncMsg' = NoMsg
  /\ inflight' = inflight \cup
       {[fn |-> "fetchJodIlsRate", tbl |-> "settings", id |-> 0,
         arg |-> [by |-> "manual", base |-> data.settings.baseCurrency, now |-> now]]}
  /\ last' = [op |-> "autoFetchRate"]
  /\ UNCHANGED <<data, cache, remote, rateLast, now, cv, session, route>>

----------------------------------------------------------------------------
(* Asynchronous calls settling *)

Writes == {"dbUpsertSettings", "dbInsertUnit", "dbDeleteUnit", "dbInsertTenant",
           "dbToggleTenantActive", "dbDeleteTenant", "dbInsertUtility", "dbDeleteUtility",
           "dbInsertInvoice", "dbDeleteInvoice", "dbInsertPayment", "dbDeletePayment"}

\* fetchJodIlsRate returns a number: the refresh goes on to write it to the settings row
fetchRateOk(c, rate) ==
  /\ c \in inflight /\ c.fn = "fetchJodIlsRate"
  /\ inflight' = (inflight \ {c}) \cup
       {[fn |-> "dbUpsertSettings", tbl |-> "settings", id |-> 0,
         arg |-> SettingsRow(c.arg.base, rate), then |-> c.arg]}
  /\ last' = [op |-> "fetchRateOk"]
  /\ UNCHANGED <<data, cache, remote, rateLast, now, cv, session, route, syncMsg>>

\* what the catch of a refresh does with the error: the manual refresh shows its
\* message, the daily refresh drops it
refreshCaught(by) == IF by = "manual" THEN ErrorMsg ELSE syncMsg

\* a variant that falls back to the default rate when the provider fails
fetchRateFailFallingBack(c) ==
  /\ c \in inflight /\ c.fn = "fetchJodIlsRate"
  /\ inflight' = inflight \ {c}
  /\ data' = [data EXCEPT !.settings.jodToIlsRate = Num(DefaultRate)]
  /\ cache' = data'
  /\ syncMsg' = refreshCaught(c.arg.by)
  /\ last' = [op |-> "fetchRateFail"]
  /\ UNCHANGED <<remote, rateLast, now, cv, session, route>>

\* missing key, HTTP failure or a value that is no number: the refresh ends in its catch
fetchRateFail(c) ==
  /\ c \in inflight /\ c.fn = "fetchJodIlsRate"
  /\ inflight' = inflight \ {c}
  /\ syncMsg' = refreshCaught(c.arg.by)
  /\ last' = [op |-> "fetchRateFail"]
  /\ UNCHANGED <<data, cache, remote, rateLast, now, cv, session, route>>

\* a variant in which the daily refresh stores the time at which it completes
writeOkStampingCompletion(c) ==
  /\ c \in inflight /\ c.fn \in Writes
  /\ ~ getCurrentUserId(session).throws
  /\ remote' = dbApply(remote, c)
  /\ inflight' = inflight \ {c}
  /\ IF "then" \in DOMAIN c
     THEN /\ data' = [data EXCEPT !.settings.jodToIlsRate = c.arg.jod_to_ils_rate]
          /\ cache' = data'
          /\ rateLast' = IF c.then.by = "daily" THEN now ELSE rateLast
          /\ syncMsg' = IF c.then.by = "manual" THEN RateUpdatedMsg ELSE syncMsg
     ELSE UNCHANGED <<data, cache, rateLast, syncMsg>>
  /\ last' = [op |-> "writeOk", fn |-> c.fn]
  /\ UNCHANGED <<now, cv, session, route>>

\* a gateway write succeeds; a refresh then sets the rate in the snapshot, and the
\* daily refresh stores the time of its check
writeOk(c) ==
  /\ c \in inflight /\ c.fn \in Writes
  /\ ~ getCurrentUserId(session).throws
  /\ remote' = dbApply(remote, c)
  /\ inflight' = inflight \ {c}
  /\ IF "then" \in DOMAIN c
     THEN /\ data' = [data EXCEPT !.settings.jodToIlsRate = c.arg.jod_to_ils_rate]
          /\ cache' = data'
          /\ rateLast' = IF c.then.by = "daily" THEN c.then.now ELSE rateLast
          /\ syncMsg' = IF c.then.by = "manual" THEN RateUpdatedMsg ELSE syncMsg
     ELSE UNCHANGED <<data, cache, rateLast, syncMsg>>
  /\ last' = [op |-> "writeOk", fn |-> c.fn]
  /\ UNCHANGED <<now, cv, session, route>>

\* a variant that takes a record back out of the snapshot when its insert fails
writeFailRollingBack(c) ==
  /\ c \in inflight /\ c.fn \in Writes
  /\ inflight' = inflight \ {c}
  /\ data' = IF c.fn \in {"dbInsertUnit", "dbInsertTenant", "dbInsertUtility",
                           "dbInsertInvoice", "dbInsertPayment"}
             THEN [data EXCEPT ![c.tbl] = SelectSeq(@, LAMBDA x : x.id # c.id)]
             ELSE data
  /\ cache' = data'
  /\ syncMsg' = IF "then" \in DOMAIN c THEN refreshCaught(c.then.by) ELSE syncMsg
  /\ last' = [op |-> "writeFail", fn |-> c.fn]
  /\ UNCHANGED <<remote, rateLast, now, cv, session, route>>

\* a gateway write throws (no identity, or the store reports an error): the handler's
\* catch is empty, the catch of a refresh is refreshCaught
writeFail(c) ==
  /\ c \in inflight /\ c.fn \in Writes
  /\ inflight' = inflight \ {c}
  /\ syncMsg' = IF "then" \in DOMAIN c THEN refreshCaught(c.then.by) ELSE syncMsg
  /\ last' = [op |-> "writeFail", fn |-> c.fn]
  /\ UNCHANGED <<data, cache, remote, rateLast, now, cv, session, route>>

----------------------------------------------------------------------------
(* Initial load *)

FetchAll == Call("dbFetchAll", "all", 0, [id |-> 0])

\* the snapshot after the load's setData, given the fetched rows in the order returned
loadedData(prev, settingsRows, units, tenants, utilities, invoices, payments) ==
  [settings |-> IF settingsRows # {}
                THEN LET r == CHOOSE x \in settingsRows : TRUE
                     IN [baseCurrency |-> r.base_currency, jodToIlsRate |-> r.jod_to_ils_rate]
                ELSE prev.settings,
   units |-> [i \in DOMAIN units |-> UnitOfRow(units[i])],
   tenants |-> [i \in DOMAIN tenants |-> TenantOfRow(tenants[i])],
   utilities |-> [i \in DOMAIN utilities |-> UtilityOfRow(utilities[i])],
   invoices |-> [i \in DOMAIN invoices |-> InvoiceOfRow(invoices[i])],
   payments |-> [i \in DOMAIN payments |-> PaymentOfRow(payments[i])]]

loadCommit(d2, l) ==
  /\ data' = d2
  /\ cache' = d2
  /\ inflight' = (inflight \ {FetchAll}) \cup
                 (IF d2.settings.baseCurrency # data.settings.baseCurrency
                  THEN dailyEffect(d2) ELSE {})
  /\ last' = l
  /\ UNCHANGED <<remote, rateLast, now, cv, session, route, syncMsg>>

\* the six queries of dbFetchAll
Queries == {"settings", "units", "tenants", "utilities", "invoices", "payments"}
\* the queries to which the store answers with an error: none, or one of them
QueryErrors == {{}} \cup {{q} : q \in Queries}

\* a variant that does not look at the error of the payments query
dbFetchAllIgnoringPayments(s, errs) ==
  IF getCurrentUserId(s).throws THEN "empty"
  ELSE IF errs \ {"payments"} # {} THEN "throws" ELSE "rows"

\* how dbFetchAll ends: without an identity it returns null settings and empty
\* collections before any query; with one it throws when a query reports an error
dbFetchAllOutcome(s, errs) ==
  IF getCurrentUserId(s).throws THEN "empty"
  ELSE IF errs # {} THEN "throws" ELSE "rows"

\* dbFetchAll returns the owner's rows (each table in any order the store lists it)
loadOk ==
  /\ FetchAll \in inflight
  /\ \E errs \in QueryErrors :
       /\ dbFetchAllOutcome(session, errs) = "rows"
       /\ \E us \in Orders(remote.units), ts \in Orders(remote.tenants),
             ut \in Orders(remote.utilities), is \in Orders(remote.invoices),
             ps \in Orders(remote.payments) :
            loadCommit(loadedData(data, remote.settings, us, ts, ut, is, ps),
                       [op |-> "loadOk", errs |-> errs])

\* dbFetchAll without an identity returns no settings and empty tables
loadNoIdentity ==
  /\ FetchAll \in inflight
  /\ dbFetchAllOutcome(session, {}) = "empty"
  /\ loadCommit(loadedData(data, {}, <<>>, <<>>, <<>>, <<>>, <<>>),
                [op |-> "loadNoIdentity", errs |-> {}])

\* dbFetchAll throws: the snapshot is read back from the cache, over the defaults
loadFail ==
  /\ FetchAll \in inflight
  /\ \E errs \in QueryErrors :
       /\ dbFetchAllOutcome(session, errs) = "throws"
       /\ loadCommit([k \in DOMAIN DEFAULT_DATA |->
                        IF k \in DOMAIN cache THEN cache[k] ELSE DEFAULT_DATA[k]],
                     [op |-> "loadFail", errs |-> errs])

\* the page is opened again (no call of the previous page is pending): a new
\* component mounts with the defaults, mirrors them, starts the load and the refresh check
mount ==
  /\ inflight = {}
  /\ data' = DEFAULT_DATA
  /\ cache' = DEFAULT_DATA
  /\ inflight' = {FetchAll} \cup dailyEffect(DEFAULT_DATA)
  /\ syncMsg' = NoMsg
  /\ last' = [op |-> "mount", cached |-> cache]
  /\ UNCHANGED <<remote, rateLast, now, cv, session, route>>

----------------------------------------------------------------------------
(* Input domains *)

RentAmounts == {Num(200)}
UtilityAmounts == {Num(50)}
PaymentAmounts == {Num(100)}
\* what the rate input can hold: empty (read as 0) or a number
RateInputs == {Num(0), Num(2)}
\* what the rate provider answers
FetchedRates == {Num(2)}
\* the rates a settings row can hold after these inputs
SettingsRates == {Num(DefaultRate)} \cup RateInputs \cup FetchedRates

Idle == [pc |-> "idle"]

----------------------------------------------------------------------------
(* Populated snapshots: states the page is in after units, tenants, utility  *)
(* charges and payments have been entered and every write has reached the   *)
(* store.  Lists are newest first, as the add handlers build them.          *)

\* n records with the identifiers n..1, their other fields drawn from Fields
SeqsOf(n, Fields) ==
  {[i \in 1..n |-> [id |-> n + 1 - i] @@ f[i]] : f \in [1..n -> Fields]}

UpTo(n, Fields) == UNION {SeqsOf(k, Fields) : k \in 0..n}

UnitFields(kinds, curs) ==
  [kind : kinds, rentAmount : RentAmounts, rentCurrency : curs]
TenantFields(unitIds, actives) == [unitId : unitIds, active : actives]
UtilityFields(unitIds, periods, curs) ==
  [unitId : unitIds, period : periods, amount : UtilityAmounts, currency : curs]

\* the payments addPayment can have entered for the tenants of a snapshot
PaymentsFor(tenants, n) ==
  {q \in UpTo(n, [tenantId : Ids(tenants), unitId : {t.unitId : t \in Range(tenants)},
                  amount : PaymentAmounts, currency : {"JOD"}]) :
     \A i \in DOMAIN q : \E t \in Range(tenants) : t.id = q[i].tenantId /\ t.unitId = q[i].unitId}

\* the store after every insert of a snapshot has succeeded
Mirror(d) ==
  [settings |-> {SettingsRow(d.settings.baseCurrency, d.settings.jodToIlsRate)},
   units |-> {UnitRow(x) : x \in Range(d.units)},
   tenants |-> {TenantRow(x) : x \in Range(d.tenants)},
   utilities |-> {UtilityRow(x) : x \in Range(d.utilities)},
   invoices |-> {InvoiceRow(x) : x \in Range(d.invoices)},
   payments |-> {PaymentRow(x) : x \in Range(d.payments)}]

\* a quiescent page showing snapshot d
Quiescent(d) ==
  /\ data = d
  /\ cache = d
  /\ remote = Mirror(d)
  /\ inflight = {}
  /\ rateLast = 0
  /\ now = DayMs
  /\ last = [op |-> "loaded"]
  /\ cv = Idle
  /\ syncMsg = NoMsg
  /\ session = Owner
  /\ route = NoRoute

----------------------------------------------------------------------------
(* Specification of the tab handlers: one handler runs on a populated page  *)

\* one utility charge (one active tenant) per unit, newest first
OnePerUnit(n, rest) == [i \in 1..n |-> [id |-> n + 1 - i, unitId |-> n + 1 - i] @@ rest]

\* unit 1 is an apartment, the others are shops
OnePerUnitKind(n) ==
  [i \in 1..n |-> [id |-> n + 1 - i, kind |-> IF n + 1 - i = 1 THEN "apartment" ELSE "shop",
                   rentAmount |-> Num(200), rentCurrency |-> "ILS"]]

\* any units and tenants (a tenant's unit may be gone), a charge per unit, payments,
\* and the invoices of an earlier generation
InitTenants ==
  \E units \in UNION {SeqsOf(k, UnitFields(UnitKind, Currency)) : k \in 1..MaxUnits},
     tenants \in UpTo(MaxTenants, TenantFields(1..MaxUnits, BOOLEAN)),
     g \in {"none"} \cup Scope :
    \E payments \in PaymentsFor(tenants, MaxPayments) :
      LET base == [DEFAULT_DATA EXCEPT
                     !.units = units, !.tenants = tenants, !.payments = payments,
                     !.utilities = OnePerUnit(Min(Len(units), MaxUtilities),
                                              [period |-> P2024_01, amount |-> Num(50),
                                               currency |-> "JOD"])]
          k == IF g = "none" THEN 0 ELSE Len(eligibleTenants(base, g, NoFilter))
      IN /\ k <= MaxInvoices
         /\ Quiescent([base EXCEPT !.invoices =
                         IF g = "none" THEN <<>>
                         ELSE newInvoices(base, g, P2024_01, NoFilter, [i \in 1..k |-> i])])

\* an apartment and shops with an active tenant each, any utility charges, any settings
InitUtilities ==
  \E units \in {OnePerUnitKind(MaxUnits)},
     utilities \in UpTo(MaxUtilities, UtilityFields(1..MaxUnits, UtilityPeriods, Currency)),
     b \in Currency, r \in RateInputs :
    Quiescent([DEFAULT_DATA EXCEPT
                 !.settings = [baseCurrency |-> b, jodToIlsRate |-> r],
                 !.units = units, !.utilities = utilities,
                 !.tenants = OnePerUnit(Min(MaxUnits, MaxTenants), [active |-> TRUE])])

InitTabs == InitTenants \/ InitUtilities

NextTabs ==
  /\ inflight = {}
  /\ \/ \E s \in Scope, p \in RequestPeriods, f \in {NoFilter} \cup (1..MaxTenants) :
          generateInvoices(s, p, f)
     \/ \E id \in 1..MaxUnits : removeUnit(id)
     \/ \E id \in 1..MaxTenants : removeTenant(id)

SpecTabs == InitTabs /\ [][NextTabs]_vars

----------------------------------------------------------------------------
(* Specification of the converter: convertToBase applied to any inputs, and  *)
(* applied again to its own result                                          *)

ConvAmounts == {Num(0), Num(20), Num(100), Num(-7), Norm(1, 3)}
ConvRates == {Num(0), NaN, Num(1), Num(2), Num(5), Norm(7, 2)}
\* settings objects, with and without the rate field
ConvSettings == [baseCurrency : Currency, jodToIlsRate : ConvRates] \cup [baseCurrency : Currency]

OtherCurrency(c) == IF c = "JOD" THEN "ILS" ELSE "JOD"
SwapBase(st) == [st EXCEPT !.baseCurrency = OtherCurrency(@)]

InitConvert ==
  /\ data = DEFAULT_DATA
  /\ cache = DEFAULT_DATA
  /\ remote = EmptyRemote
  /\ inflight = {}
  /\ rateLast = 0
  /\ now = DayMs
  /\ last = [op |-> "none"]
  /\ syncMsg = NoMsg
  /\ session = Owner
  /\ route = NoRoute
  /\ cv \in [pc : {"input"}, amount : ConvAmounts, from : Currency, settings : ConvSettings]

convertOnce ==
  /\ cv.pc = "input"
  /\ cv' = [pc |-> "converted", amount |-> cv.amount, from |-> cv.from,
            settings |-> cv.settings,
            result |-> convertToBase(cv.amount, cv.from, cv.settings)]
  /\ UNCHANGED <<data, cache, remote, inflight, rateLast, now, last, syncMsg, session, route>>

convertBack(to, settings2) ==
  /\ cv.pc = "converted"
  /\ cv' = [pc |-> "back", amount |-> cv.amount, from |-> cv.from,
            settings |-> cv.settings, result |-> cv.result,
            to |-> to, settings2 |-> settings2,
            result2 |-> convertToBase(cv.result, to, settings2)]
  /\ UNCHANGED <<data, cache, remote, inflight, rateLast, now, last, syncMsg, session, route>>

NextConvert ==
  \/ convertOnce
  \/ \E to \in Currency, s2 \in {cv.settings, SwapBase(cv.settings)} : convertBack(to, s2)

SpecConvert == InitConvert /\ [][NextConvert]_vars

HasRate(st) == "jodToIlsRate" \in DOMAIN st

\* C5: a conversion from the base currency returns the amount unchanged, for every
\* amount, both currencies and every rate (zero, NaN and a missing rate included)
C5_SameCurrencyUnchanged ==
  (cv.pc = "converted" /\ cv.from = cv.settings.baseCurrency) => cv.result = cv.amount

C5_Witness ==
  /\ cv.pc = "converted" /\ cv.from = "ILS" /\ cv.settings.baseCurrency = "ILS"
  /\ HasRate(cv.settings) /\ cv.settings.jodToIlsRate = Num(0)
  /\ cv.amount = Num(100) /\ cv.result = Num(100)

\* C6: with a usable rate r and a source other than the base, shekels become dinars
\* as amount / r (the result times r is the amount) and dinars become shekels as
\* amount * r (the result divided by r is the amount); 100 ILS at 5 is 20 JOD and
\* 20 JOD at 5 is 100 ILS
C6_DivideOrMultiply ==
  (cv.pc = "converted" /\ cv.from # cv.settings.baseCurrency
     /\ HasRate(cv.settings) /\ ~ Falsy(cv.settings.jodToIlsRate)) =>
    LET r == cv.settings.jodToIlsRate IN
    /\ cv.settings.baseCurrency = "JOD" => JsMul(cv.result, r) = cv.amount
    /\ cv.settings.baseCurrency = "ILS" => JsDiv(cv.result, r) = cv.amount
    /\ (r = Num(5) /\ cv.amount = Num(100) /\ cv.from = "ILS") => cv.result = Num(20)
    /\ (r = Num(5) /\ cv.amount = Num(20) /\ cv.from = "JOD") => cv.result = Num(100)

C6_Witness ==
  /\ cv.pc = "converted" /\ cv.from = "ILS" /\ cv.settings.baseCurrency = "JOD"
  /\ HasRate(cv.settings) /\ cv.settings.jodToIlsRate = Num(5)
  /\ cv.amount = Num(100) /\ cv.result = Num(20)

\* C7: with a rate of zero or no rate at all the result is the one a rate of 5 gives,
\* and it is a finite number (nothing was divided by zero)
C7_ZeroOrMissingRateIsFive ==
  (cv.pc = "converted" /\ (~ HasRate(cv.settings) \/ cv.settings.jodToIlsRate = Num(0))) =>
    /\ cv.result = convertToBase(cv.amount, cv.from,
                                 [baseCurrency |-> cv.settings.baseCurrency,
                                  jodToIlsRate |-> Num(5)])
    /\ IsFinite(cv.result)

C7_Witness ==
  /\ cv.pc = "converted" /\ ~ HasRate(cv.settings)
  /\ cv.from = "ILS" /\ cv.settings.baseCurrency = "JOD"
  /\ cv.amount = Num(100) /\ cv.result = Num(20)

\* C8 as stated: converting from A and then from B # A under the same settings
\* gives the amount back
C8_RoundTripSameSettings ==
  (cv.pc = "back" /\ cv.to # cv.from /\ cv.settings2 = cv.settings) =>
    cv.result2 = cv.amount

\* C8 amended: converting from A into the base B, and then from B under settings of
\* the same rate whose base is A, gives the amount back
C8_RoundTripSwappedBase ==
  (cv.pc = "back" /\ cv.to # cv.from /\ cv.settings.baseCurrency = cv.to
     /\ cv.settings2 = SwapBase(cv.settings)) =>
    cv.result2 = cv.amount

C8_Witness ==
  /\ cv.pc = "back" /\ cv.from = "ILS" /\ cv.to = "JOD"
  /\ cv.settings.baseCurrency = "JOD" /\ cv.settings2 = SwapBase(cv.settings)
  /\ HasRate(cv.settings) /\ cv.settings.jodToIlsRate = Norm(7, 2)
  /\ cv.amount = Num(100) /\ cv.result # cv.amount /\ cv.result2 = cv.amount

----------------------------------------------------------------------------
(* Claims about the tab handlers (SpecTabs) *)

\* the positions of the invoices a step has added
Added == {k \in DOMAIN data'.invoices : data'.invoices[k].id \notin Ids(data.invoices)}

\* the sum of the converted amounts of the utility charges at the positions I
RECURSIVE ConvertedSum(_, _, _)
ConvertedSum(utilities, settings, I) ==
  IF I = {} THEN Num(0)
  ELSE LET i == CHOOSE x \in I : TRUE
       IN JsAdd(convertToBase(utilities[i].amount, utilities[i].currency, settings),
                ConvertedSum(utilities, settings, I \ {i}))

\* the two periods name the same year (their first four characters agree)
SameYear(p, q) == Len(p) >= 4 /\ Len(q) >= 4 /\ \A i \in 1..4 : p[i] = q[i]

KindOfScope(scope) == IF scope = "monthly" THEN "apartment" ELSE "shop"

\* tenant t of snapshot d is eligible for a generation with this scope and filter
Eligible(d, t, scope, filter) ==
  /\ t.active
  /\ \E u \in Range(d.units) : u.id = t.unitId /\ u.kind = KindOfScope(scope)
  /\ (filter = NoFilter \/ t.id = filter)

\* C2: a generation adds exactly one invoice for each eligible tenant (active, its
\* unit present and of the kind of the scope, equal to the filter when one is set)
\* and no invoice for anyone else
C2_OneInvoicePerEligibleTenant ==
  [][last'.op = "generateInvoices" =>
       /\ \A t \in Range(data.tenants) :
            Cardinality({k \in Added : data'.invoices[k].tenantId = t.id
                                       /\ data'.invoices[k].unitId = t.unitId}) =
              IF Eligible(data, t, last'.scope, last'.filter) THEN 1 ELSE 0
       /\ \A k \in Added : data'.invoices[k].tenantId \in Ids(data.tenants)
       /\ Cardinality(Added) =
            Cardinality({t \in Range(data.tenants) : Eligible(data, t, last'.scope, last'.filter)})
    ]_vars

\* two tenants, one of them not eligible, and the one invoice is the eligible tenant's
C2_Witness ==
  /\ last.op = "generateInvoices" /\ last.filter = NoFilter
  /\ Len(data.tenants) = 2 /\ Len(data.invoices) = 1
  /\ \E t \in Range(data.tenants) : ~ Eligible(data, t, last.scope, last.filter)
  /\ \E t \in Range(data.tenants) :
       /\ Eligible(data, t, last.scope, last.filter)
       /\ data.invoices[1].tenantId = t.id
  /\ \E c \in inflight : c.fn = "dbInsertInvoice" /\ c.id = data.invoices[1].id

\* C3: with scope yearly, utilitiesBase of each added invoice is the sum of the
\* converted amounts of the charges of its unit whose period lies in the requested
\* year, and of no other charge
C3_YearlyUtilities ==
  [][(last'.op = "generateInvoices" /\ last'.scope = "yearly") =>
       \A k \in Added :
         data'.invoices[k].utilitiesBase =
           ConvertedSum(data.utilities, data.settings,
                        {i \in DOMAIN data.utilities :
                           /\ data.utilities[i].unitId = data'.invoices[k].unitId
                           /\ SameYear(data.utilities[i].period, last'.period)})
    ]_vars

\* a yearly invoice whose unit has charges in two months of the requested year
C3_Witness ==
  /\ last.op = "generateInvoices" /\ last.scope = "yearly" /\ last.period = P2024_01
  /\ Len(data.invoices) = 1
  /\ \E c \in inflight : c.fn = "dbInsertInvoice" /\ c.id = data.invoices[1].id
  /\ Len(data.utilities) = 2
  /\ {data.utilities[1].period, data.utilities[2].period} = {P2024_01, P2024_02}
  /\ \A i \in 1..2 : /\ data.utilities[i].unitId = data.invoices[1].unitId
                     /\ data.utilities[i].currency = data.settings.baseCurrency
  /\ data.invoices[1].utilitiesBase = Num(100)

\* C4: with scope monthly, utilitiesBase of each added invoice is the sum of the
\* converted amounts of exactly the charges of its unit whose period is the requested
\* period string
C4_MonthlyUtilities ==
  [][(last'.op = "generateInvoices" /\ last'.scope = "monthly") =>
       \A k \in Added :
         data'.invoices[k].utilitiesBase =
           ConvertedSum(data.utilities, data.settings,
                        {i \in DOMAIN data.utilities :
                           /\ data.utilities[i].unitId = data'.invoices[k].unitId
                           /\ data.utilities[i].period = last'.period})
    ]_vars

\* a monthly invoice whose unit has a charge of the month and a charge of the bare year
C4_Witness ==
  /\ last.op = "generateInvoices" /\ last.scope = "monthly" /\ last.period = P2024_01
  /\ Len(data.invoices) = 1
  /\ \E c \in inflight : c.fn = "dbInsertInvoice" /\ c.id = data.invoices[1].id
  /\ Len(data.utilities) = 2
  /\ {data.utilities[1].period, data.utilities[2].period} = {P2024_01, P2024}
  /\ \A i \in 1..2 : /\ data.utilities[i].unitId = data.invoices[1].unitId
                     /\ data.utilities[i].currency = data.settings.baseCurrency
  /\ data.invoices[1].utilitiesBase = Num(50)

\* the records of list s that do not reference unit id, in their order
NotOfUnit(s, id) == SelectSeq(s, LAMBDA x : x.unitId # id)

\* C10: after removeUnit(id) the snapshot holds no unit id and no tenant, utility
\* charge, invoice or payment of unit id, and every record of another unit is kept
C10_RemoveUnitCascade ==
  [][last'.op = "removeUnit" =>
       LET id == last'.id IN
       /\ id \notin Ids(data'.units)
       /\ \A x \in Range(data'.tenants) \cup Range(data'.utilities)
                 \cup Range(data'.invoices) \cup Range(data'.payments) : x.unitId # id
       /\ Range(data'.units) = {u \in Range(data.units) : u.id # id}
       /\ data'.tenants = NotOfUnit(data.tenants, id)
       /\ data'.utilities = NotOfUnit(data.utilities, id)
       /\ data'.invoices = NotOfUnit(data.invoices, id)
       /\ data'.payments = NotOfUnit(data.payments, id)
    ]_vars

\* a unit with a tenant, a charge, an invoice and a payment was removed (the store
\* still lists them) while a unit with a tenant, a charge and an invoice stays
C10_Witness ==
  /\ last.op = "removeUnit"
  /\ \E r \in remote.tenants : r.unit_id = last.id
  /\ \E r \in remote.utilities : r.unit_id = last.id
  /\ \E r \in remote.invoices : r.unit_id = last.id
  /\ \E r \in remote.payments : r.unit_id = last.id
  /\ Len(data.units) = 1 /\ Len(data.tenants) = 1 /\ Len(data.utilities) = 1
  /\ Len(data.invoices) = 1 /\ data.payments = <<>>

\* the records of list s that do not reference tenant id, in their order
NotOfTenant(s, id) == SelectSeq(s, LAMBDA x : x.tenantId # id)

\* C11: after removeTenant(id) the snapshot holds no tenant id and no invoice or
\* payment of tenant id; units, utility charges and the other tenants' records stay
C11_RemoveTenantCascade ==
  [][last'.op = "removeTenant" =>
       LET id == last'.id IN
       /\ id \notin Ids(data'.tenants)
       /\ \A x \in Range(data'.invoices) \cup Range(data'.payments) : x.tenantId # id
       /\ data'.tenants = SelectSeq(data.tenants, LAMBDA t : t.id # id)
       /\ data'.invoices = NotOfTenant(data.invoices, id)
       /\ data'.payments = NotOfTenant(data.payments, id)
       /\ data'.units = data.units
       /\ data'.utilities = data.utilities
       /\ data'.settings = data.settings
    ]_vars

\* a tenant with an invoice and a payment was removed (the store still lists them)
\* while another tenant and that tenant's invoice stay
C11_Witness ==
  /\ last.op = "removeTenant"
  /\ \E r \in remote.invoices : r.tenant_id = last.id
  /\ \E r \in remote.payments : r.tenant_id = last.id
  /\ Len(data.tenants) = 1 /\ Len(data.invoices) = 1 /\ data.payments = <<>>
  /\ data.utilities # <<>>

----------------------------------------------------------------------------
(* Specification of the application: the owner opens the page on a store    *)
(* that holds an apartment and shops with a tenant each, the load and the   *)
(* daily rate refresh of the mount settle, and then handlers run one after  *)
(* the other (a handler starts when no call is pending).  The store accepts *)
(* every table write; a rate refresh may fail at the provider or at the     *)
(* store.                                                                   *)

\* the units the owner enters charges for, and the rates typed into the input
ChargedUnits == {1}
TypedRates == RateInputs \ {Num(0)}

StoredData ==
  [DEFAULT_DATA EXCEPT !.units = OnePerUnitKind(MaxUnits),
                       !.tenants = OnePerUnit(Min(MaxUnits, MaxTenants), [active |-> TRUE])]

Init ==
  /\ data = DEFAULT_DATA
  /\ cache = DEFAULT_DATA
  /\ remote = [Mirror(StoredData) EXCEPT !.settings = {}]
  /\ rateLast = 0
  /\ now = DayMs
  /\ inflight = {FetchAll} \cup dailyEffect(DEFAULT_DATA)
  /\ last = [op |-> "mount"]
  /\ cv = Idle
  /\ syncMsg = NoMsg
  /\ session = Owner
  /\ route = NoRoute

Handler ==
  \/ \E s \in Scope, f \in {NoFilter} : generateInvoices(s, P2024_01, f)
  \/ \E id \in 1..MaxInvoices : removeInvoice(id)
  \/ \E u \in ChargedUnits, a \in UtilityAmounts : addUtility(u, P2024_01, a, "JOD")
  \/ \E id \in 1..MaxUtilities : removeUtility(id)
  \/ \E b \in Currency : updateBaseCurrency(b)
  \/ \E r \in TypedRates : updateExchangeRate(r)
  \/ autoFetchRate

Settle ==
  \/ \E c \in inflight, r \in FetchedRates : fetchRateOk(c, r)
  \/ \E c \in inflight : fetchRateFail(c)
  \/ \E c \in inflight : writeOk(c)
  \/ \E c \in {x \in inflight : "then" \in DOMAIN x} : writeFail(c)
  \/ loadOk

Next ==
  \/ (inflight = {} /\ Handler)
  \/ Settle

Spec == Init /\ [][Next]_vars

----------------------------------------------------------------------------
(* Claims checked under Spec *)

\* C1: every invoice in the local snapshot, when generateInvoices has created it and
\* after any later operation, has totalBase = rentBase + utilitiesBase
C1_TotalIsRentPlusUtilities ==
  \A i \in DOMAIN data.invoices :
    data.invoices[i].totalBase = JsAdd(data.invoices[i].rentBase, data.invoices[i].utilitiesBase)

\* an invoice with utilities in its total is still shown after the base currency was
\* changed and every utility charge was removed
C1_Witness ==
  /\ data.utilities = <<>>
  /\ \E i \in DOMAIN data.invoices :
       /\ ~Falsy(data.invoices[i].utilitiesBase)
       /\ data.invoices[i].totalBase # data.invoices[i].rentBase
       /\ HasUnit(data, data.invoices[i].unitId)
       /\ data.invoices[i].rentBase #
            convertToBase(GetUnit(data, data.invoices[i].unitId).rentAmount,
                          GetUnit(data, data.invoices[i].unitId).rentCurrency, data.settings)

\* C9: an invoice that is in the snapshot before and after a step (it was not deleted)
\* is the same record after it: no settings change, rate refresh, utility add or
\* remove, or further generation changes its amounts, period or scope
C9_StoredInvoicesFrozen ==
  [][\A i \in DOMAIN data.invoices : \A j \in DOMAIN data'.invoices :
       data.invoices[i].id = data'.invoices[j].id => data.invoices[i] = data'.invoices[j]]_vars

\* the rate was just changed and a stored invoice holds a rent that converting
\* under the new settings would not give
C9_Witness ==
  /\ last.op = "updateExchangeRate"
  /\ \E i \in DOMAIN data.invoices :
       /\ HasUnit(data, data.invoices[i].unitId)
       /\ data.invoices[i].rentBase #
            convertToBase(GetUnit(data, data.invoices[i].unitId).rentAmount,
                          GetUnit(data, data.invoices[i].unitId).rentCurrency, data.settings)

----------------------------------------------------------------------------
(* Specification of deletions: on a populated page units and tenants are    *)
(* removed one after the other, and each remote delete succeeds or fails    *)

NextDeletes ==
  \/ (inflight = {} /\ \E id \in 1..MaxUnits : removeUnit(id))
  \/ (inflight = {} /\ \E id \in 1..MaxTenants : removeTenant(id))
  \/ \E c \in inflight : writeOk(c)
  \/ \E c \in inflight : writeFail(c)

SpecDeletes == InitTenants /\ [][NextDeletes]_vars

\* the tables of the store
Tables == {"settings", "units", "tenants", "utilities", "invoices", "payments"}

\* C12: removeUnit and removeTenant each issue one call, the delete of the targeted
\* row of their own table, and leave the store as it is; when that delete succeeds the
\* store loses that row and nothing else
C12_OneRemoteDeleteNoCascade ==
  [][/\ last'.op = "removeUnit" =>
          /\ inflight' = inflight \cup {Call("dbDeleteUnit", "units", last'.id, [id |-> last'.id])}
          /\ Cardinality(inflight' \ inflight) = 1
          /\ remote' = remote
     /\ last'.op = "removeTenant" =>
          /\ inflight' = inflight \cup {Call("dbDeleteTenant", "tenants", last'.id, [id |-> last'.id])}
          /\ Cardinality(inflight' \ inflight) = 1
          /\ remote' = remote
     /\ \A c \in inflight :
          (last'.op = "writeOk" /\ c \notin inflight'
             /\ c.fn \in {"dbDeleteUnit", "dbDeleteTenant"}) =>
            /\ c.tbl = (IF c.fn = "dbDeleteUnit" THEN "units" ELSE "tenants")
            /\ remote'[c.tbl] = {x \in remote[c.tbl] : x.id # c.id}
            /\ \A t \in Tables \ {c.tbl} : remote'[t] = remote[t]
    ]_vars

\* a unit was deleted in the store, and the store still holds a tenant, a charge, an
\* invoice and a payment of that unit
C12_Witness ==
  /\ last.op = "writeOk" /\ last.fn = "dbDeleteUnit"
  /\ inflight = {}
  /\ \E r \in remote.tenants : r.unit_id \notin {u.id : u \in remote.units}
  /\ \E r \in remote.utilities : r.unit_id \notin {u.id : u \in remote.units}
  /\ \E r \in remote.invoices : r.unit_id \notin {u.id : u \in remote.units}
  /\ \E r \in remote.payments : r.unit_id \notin {u.id : u \in remote.units}

----------------------------------------------------------------------------
(* Specification of generation: on a page without invoices the owner        *)
(* generates and removes invoices, also while earlier inserts are pending   *)

InitGenerate ==
  \E tenants \in UpTo(MaxTenants, TenantFields(1..MaxUnits, BOOLEAN)) :
    Quiescent([DEFAULT_DATA EXCEPT
                 !.units = OnePerUnitKind(MaxUnits),
                 !.tenants = tenants,
                 !.utilities = OnePerUnit(Min(MaxUnits, MaxUtilities),
                                          [period |-> P2024_01, amount |-> Num(50),
                                           currency |-> "JOD"])])

NextGenerate ==
  \/ \E s \in Scope, p \in RequestPeriods, f \in {NoFilter} \cup (1..MaxTenants) :
       generateInvoices(s, p, f)
  \/ \E id \in 1..MaxInvoices : removeInvoice(id)
  \/ \E c \in inflight : writeOk(c)
  \/ \E c \in inflight : writeFail(c)

SpecGenerate == InitGenerate /\ [][NextGenerate]_vars

\* the calls a step has issued
Issued == inflight' \ inflight

\* two invoices of one tenant for the same period and scope
Duplicates(x, y) ==
  x.id # y.id /\ x.tenantId = y.tenantId /\ x.period = y.period /\ x.scope = y.scope

\* C13: every generation, whatever invoices exist and whatever inserts are pending,
\* adds one invoice and issues one remote insert of it per eligible tenant, so k
\* generations for the same scope, period and filter leave k invoices per tenant
C13_NoDuplicateGuard ==
  [][last'.op = "generateInvoices" =>
       LET eligible == {t \in Range(data.tenants) : Eligible(data, t, last'.scope, last'.filter)}
       IN /\ \A t \in eligible :
               /\ Cardinality({k \in Added : data'.invoices[k].tenantId = t.id}) = 1
               /\ Cardinality({c \in Issued : c.fn = "dbInsertInvoice"
                                              /\ c.arg.tenant_id = t.id}) = 1
          /\ Len(data'.invoices) = Len(data.invoices) + Cardinality(eligible)
          /\ Cardinality(Issued) = Cardinality(eligible)
          /\ inflight \subseteq inflight'
          /\ \A c \in Issued : \E k \in Added : c.arg = InvoiceRow(data'.invoices[k])
    ]_vars

\* the same generation ran a second time while the insert of the first was pending:
\* the snapshot holds two invoices of one tenant, period and scope, both inserts pending
C13_Witness ==
  /\ last.op = "generateInvoices"
  /\ Len(data.invoices) = 2
  /\ Duplicates(data.invoices[1], data.invoices[2])
  /\ \A i \in 1..2 : Call("dbInsertInvoice", "invoices", data.invoices[i].id,
                          InvoiceRow(data.invoices[i])) \in inflight

----------------------------------------------------------------------------
(* Specification of the rate refresh: the page opens on a store that may    *)
(* hold a settings row, with any age of the persisted timestamp; time       *)
(* passes, the owner changes the base currency and asks for a refresh, the  *)
(* page is opened again, and every call may succeed or fail.  Fewer than    *)
(* MaxPending calls are pending when a handler starts.                      *)

MaxTicks == 2
MaxPending == 1
\* rows the store holds in the gateway specification
MaxRows == 3

HalfDay == DayMs \div 2
StartTime == 2 * DayMs

\* absent, 12 hours old, exactly 24 hours old, 36 hours old
Timestamps == {0, StartTime - HalfDay, StartTime - DayMs, StartTime - DayMs - HalfDay}

\* Date.now() moves on
tick ==
  /\ now < StartTime + MaxTicks * HalfDay
  /\ now' = now + HalfDay
  /\ last' = [op |-> "tick"]
  /\ UNCHANGED <<data, cache, remote, inflight, rateLast, cv, session, route, syncMsg>>

InitRefresh ==
  /\ data = DEFAULT_DATA
  /\ cache = DEFAULT_DATA
  /\ \E rows \in {{}} \cup {{SettingsRow(b, Num(DefaultRate))} : b \in Currency} :
       remote = [EmptyRemote EXCEPT !.settings = rows]
  /\ rateLast \in Timestamps
  /\ now = StartTime
  /\ inflight = {FetchAll} \cup dailyEffect(DEFAULT_DATA)
  /\ last = [op |-> "mount", cached |-> DEFAULT_DATA]
  /\ cv = Idle
  /\ syncMsg = NoMsg
  /\ session \in {NoUser, Owner}
  /\ route = NoRoute

NextRefresh ==
  \/ tick
  \/ (Cardinality(inflight) < MaxPending /\ \E b \in Currency : updateBaseCurrency(b))
  \/ (Cardinality(inflight) < MaxPending /\ autoFetchRate)
  \/ \E c \in inflight, r \in FetchedRates : fetchRateOk(c, r)
  \/ \E c \in inflight : fetchRateFail(c)
  \/ \E c \in inflight : writeOk(c)
  \/ \E c \in inflight : writeFail(c)
  \/ loadOk
  \/ loadNoIdentity
  \/ loadFail
  \/ mount

SpecRefresh == InitRefresh /\ [][NextRefresh]_vars

\* the steps on which the refresh check runs: the mount and each change of the base
\* currency, by the owner or by the load
RefreshChecks == {"mount", "updateBaseCurrency", "loadOk", "loadNoIdentity", "loadFail"}

\* the timestamp ts is less than 24 hours old at time t / is absent or older than 24 hours
FreshAt(ts, t) == ts # 0 /\ ts <= t /\ t - ts < DayMs
StaleAt(ts, t) == ts = 0 \/ t - ts > DayMs

\* the provider fetch of a daily refresh, the settings write of a refresh
DailyFetch(base, t) ==
  [fn |-> "fetchJodIlsRate", tbl |-> "settings", id |-> 0,
   arg |-> [by |-> "daily", base |-> base, now |-> t]]
OfRefresh(S, by) ==
  {c \in S : \/ (c.fn = "fetchJodIlsRate" /\ c.arg.by = by)
             \/ ("then" \in DOMAIN c /\ c.then.by = by)}

\* the call that settled in a step that took exactly one call out of the pending ones
Settled(c) == c \in inflight /\ c \notin inflight'

\* C14: while the persisted timestamp is less than 24 hours old, a run of the refresh
\* check (at the initial load, at a mount, at a change of base currency) issues no
\* provider fetch and no settings write of the automatic refresh
C14_NoRefreshWithin24h ==
  /\ FreshAt(rateLast, now) => OfRefresh(inflight, "daily") = {}
  /\ [][(last'.op \in RefreshChecks /\ FreshAt(rateLast, now)) =>
          /\ OfRefresh(Issued, "daily") = {}
          /\ rateLast' = rateLast
       ]_vars

\* the base currency was just changed under a timestamp 12 hours old, and no
\* automatic refresh is pending
C14_Witness ==
  /\ last.op = "updateBaseCurrency"
  /\ FreshAt(rateLast, now) /\ now - rateLast = HalfDay
  /\ data.settings.baseCurrency = "ILS"
  /\ OfRefresh(inflight, "daily") = {}

\* C15: a page opened with no timestamp or one older than 24 hours asks the provider;
\* the fetched rate goes into a settings write, and when that write succeeds the store's
\* settings row, the snapshot's rate and the timestamp are set: the rate to the fetched
\* value, the timestamp to the time of the check
C15_InitialRefreshPersists ==
  /\ StaleAt(rateLast, now) => DailyFetch(data.settings.baseCurrency, now) \in inflight
  /\ [][/\ (last'.op = "mount" /\ StaleAt(rateLast, now)) =>
             DailyFetch(data'.settings.baseCurrency, now) \in inflight'
        /\ \A c \in inflight :
             (last'.op = "fetchRateOk" /\ Settled(c) /\ c.arg.by = "daily") =>
               \E r \in FetchedRates :
                 [fn |-> "dbUpsertSettings", tbl |-> "settings", id |-> 0,
                  arg |-> SettingsRow(c.arg.base, r), then |-> c.arg] \in inflight'
        /\ \A c \in inflight :
             (last'.op = "writeOk" /\ Settled(c) /\ c \in OfRefresh(inflight, "daily")) =>
               /\ remote'.settings = {c.arg}
               /\ c.arg.jod_to_ils_rate \in FetchedRates
               /\ data'.settings.jodToIlsRate = c.arg.jod_to_ils_rate
               /\ rateLast' = c.then.now
       ]_vars

\* the refresh of the initial load has completed after time had passed: the store and
\* the snapshot hold the fetched rate and the timestamp is the time of the check
C15_Witness ==
  /\ last.op = "writeOk"
  /\ rateLast = StartTime /\ now > StartTime
  /\ syncMsg = NoMsg
  /\ data.settings.jodToIlsRate \in FetchedRates
  /\ \E r \in remote.settings : r.jod_to_ils_rate = data.settings.jodToIlsRate

\* C16: when the settings write of a manual refresh succeeds, the store's settings row
\* and the snapshot's rate hold the fetched rate and the persisted timestamp is the
\* time of that refresh
C16_ManualRefreshPersistsTimestamp ==
  [][\A c \in inflight :
       (last'.op = "writeOk" /\ Settled(c) /\ c \in OfRefresh(inflight, "manual")) =>
         /\ remote'.settings = {c.arg}
         /\ data'.settings.jodToIlsRate = c.arg.jod_to_ils_rate
         /\ rateLast' \in {c.then.now, now}
    ]_vars

\* C17: when the provider fetch of a refresh, manual or automatic, fails, that call
\* ends and no other is issued, and the snapshot, the store and the persisted
\* timestamp are what they were
C17_FailedFetchChangesNothing ==
  [][last'.op = "fetchRateFail" =>
       \E c \in inflight :
         /\ c.fn = "fetchJodIlsRate"
         /\ inflight' = inflight \ {c}
         /\ data' = data
         /\ cache' = cache
         /\ remote' = remote
         /\ rateLast' = rateLast
    ]_vars

\* a manual refresh failed at the provider on a page whose rate had been refreshed
\* before: the error is shown and nothing is pending
C17_Witness ==
  /\ last.op = "fetchRateFail"
  /\ syncMsg = ErrorMsg
  /\ inflight = {}
  /\ data.settings.jodToIlsRate \in FetchedRates
  /\ rateLast = StartTime

----------------------------------------------------------------------------
(* Specification of reopening: a populated page, mirrored to the cache, is  *)
(* opened again; the load succeeds, finds no identity or fails, and the     *)
(* refresh of the mount settles                                             *)

NextReload ==
  \/ signIn(Owner)
  \/ signOut
  \/ mount
  \/ loadOk
  \/ loadNoIdentity
  \/ loadFail
  \/ \E c \in inflight, r \in FetchedRates : fetchRateOk(c, r)
  \/ \E c \in inflight : fetchRateFail(c)
  \/ \E c \in inflight : writeOk(c)
  \/ \E c \in inflight : writeFail(c)

SpecReload == InitTenants /\ [][NextReload]_vars

\* a cached snapshot merged over the defaults
OverDefaults(c) ==
  [k \in DOMAIN DEFAULT_DATA |-> IF k \in DOMAIN c THEN c[k] ELSE DEFAULT_DATA[k]]

\* C18: when the load of a page fails right after its mount, the snapshot becomes the
\* state that the cache held before this page was opened, merged over the defaults
C18_FallbackRestoresCachedState ==
  [][(last.op = "mount" /\ last'.op = "loadFail") => data' = OverDefaults(last.cached)]_vars

----------------------------------------------------------------------------
(* Specification of a user action: on a populated page one handler runs,    *)
(* and each call it has issued succeeds or fails                            *)

UserAction ==
  \/ \E k \in UnitKind, a \in RentAmounts, c \in Currency : addUnit(k, a, c)
  \/ \E id \in 1..MaxUnits : removeUnit(id)
  \/ \E u \in 1..MaxUnits, a \in BOOLEAN : addTenant(u, a)
  \/ \E id \in 1..MaxTenants : toggleActive(id)
  \/ \E id \in 1..MaxTenants : removeTenant(id)
  \/ \E u \in 1..MaxUnits, a \in UtilityAmounts : addUtility(u, P2024_01, a, "JOD")
  \/ \E id \in 1..MaxUtilities : removeUtility(id)
  \/ \E s \in Scope : generateInvoices(s, P2024_01, NoFilter)
  \/ \E id \in 1..MaxInvoices : removeInvoice(id)
  \/ \E t \in 1..MaxTenants, a \in PaymentAmounts : addPayment(t, a, "JOD")
  \/ \E id \in 1..MaxPayments : removePayment(id)
  \/ \E b \in Currency : updateBaseCurrency(b)
  \/ \E r \in RateInputs : updateExchangeRate(r)
  \/ autoFetchRate

NextAction ==
  \/ (last.op = "loaded" /\ UserAction)
  \/ \E c \in inflight, r \in FetchedRates : fetchRateOk(c, r)
  \/ \E c \in inflight : fetchRateFail(c)
  \/ \E c \in inflight : writeOk(c)
  \/ \E c \in inflight : writeFail(c)

SpecAction == InitTenants /\ [][NextAction]_vars

\* the handlers that change the snapshot's lists
ListOps == {"addUnit", "removeUnit", "addTenant", "toggleActive", "removeTenant",
            "addUtility", "removeUtility", "generateInvoices", "removeInvoice",
            "addPayment", "removePayment"}

\* C19: when a remote call of a user action fails, an error message is shown and the
\* snapshot keeps the optimistic change
C19_FailureIsReported ==
  [][\A c \in inflight :
       (last'.op = "writeFail" /\ Settled(c) /\ c \notin OfRefresh(inflight, "daily")) =>
         /\ syncMsg' = ErrorMsg
         /\ data' = data
    ]_vars

\* C20: a handler changes the snapshot in the step that issues its remote calls, before
\* any of them has settled and with the store as it was; when a call fails the snapshot
\* and the store stay as they are
C20_OptimisticNoRollback ==
  [][/\ last'.op \in ListOps =>
          /\ remote' = remote
          /\ cache' = data'
          /\ Issued # {} => (data' # data /\ Issued \subseteq inflight')
          /\ Issued = {} => data' = data
     /\ last'.op = "writeFail" =>
          /\ data' = data
          /\ remote' = remote
          /\ \E c \in inflight : inflight' = inflight \ {c}
    ]_vars

\* the insert of an added unit has failed and nothing is pending: the snapshot shows
\* a unit the store does not hold
C20_Witness ==
  /\ last.op = "writeFail" /\ last.fn = "dbInsertUnit"
  /\ inflight = {}
  /\ \E u \in Range(data.units) : \A r \in remote.units : r.id # u.id
  /\ cache = data

----------------------------------------------------------------------------
(* The gateway specification: users sign in and out, and any gateway write  *)
(* is called, against a store that holds the rows of every owner.           *)

SampleUnit == [id |-> 1, kind |-> "shop", rentAmount |-> Num(200), rentCurrency |-> "JOD"]
SampleTenant == [id |-> 1, unitId |-> 1, active |-> TRUE]
SampleUtility == [id |-> 1, unitId |-> 1, period |-> P2024_01, amount |-> Num(50),
                  currency |-> "JOD"]
SampleInvoice == [id |-> 1, unitId |-> 1, tenantId |-> 1, period |-> P2024_01,
                  scope |-> "monthly", rentBase |-> Num(200), utilitiesBase |-> Num(50),
                  totalBase |-> Num(250)]
SamplePayment == [id |-> 1, tenantId |-> 1, unitId |-> 1, amount |-> Num(100),
                  currency |-> "JOD"]

\* one call of each gateway write
GatewayCalls ==
  {Call("dbUpsertSettings", "settings", 0, SettingsRow("ILS", Num(DefaultRate))),
   Call("dbInsertUnit", "units", 1, UnitRow(SampleUnit)),
   Call("dbDeleteUnit", "units", 1, [id |-> 1]),
   Call("dbInsertTenant", "tenants", 1, TenantRow(SampleTenant)),
   Call("dbToggleTenantActive", "tenants", 1, [active |-> FALSE]),
   Call("dbDeleteTenant", "tenants", 1, [id |-> 1]),
   Call("dbInsertUtility", "utilities", 1, UtilityRow(SampleUtility)),
   Call("dbDeleteUtility", "utilities", 1, [id |-> 1]),
   Call("dbInsertInvoice", "invoices", 1, InvoiceRow(SampleInvoice)),
   Call("dbDeleteInvoice", "invoices", 1, [id |-> 1]),
   Call("dbInsertPayment", "payments", 1, PaymentRow(SamplePayment)),
   Call("dbDeletePayment", "payments", 1, [id |-> 1])}

InitGateway ==
  /\ data = DEFAULT_DATA
  /\ cache = DEFAULT_DATA
  /\ remote = EmptyRemote
  /\ inflight = {}
  /\ rateLast = 0
  /\ now = DayMs
  /\ last = [op |-> "none"]
  /\ cv = Idle
  /\ syncMsg = NoMsg
  /\ session = NoUser
  /\ route = NoRoute

\* the number of rows in the store
StoreSize(store) ==
  Cardinality(store.settings) + Cardinality(store.units) + Cardinality(store.tenants)
  + Cardinality(store.utilities) + Cardinality(store.invoices) + Cardinality(store.payments)

NextGateway ==
  \/ \E u \in Users : signIn(u)
  \/ signOut
  \/ \E c \in GatewayCalls : gatewayWrite(c) /\ StoreSize(remote') <= MaxRows

SpecGateway == InitGateway /\ [][NextGateway]_vars

\* the rows of a table that belong to somebody else than the given user
NotOwnedBy(store, tbl, u) == {r \in store[tbl] : r.owner_id # u}

\* C21: a gateway write called while nobody is signed in ends as unauthorized and
\* leaves the store as it was; a write called by a signed-in user adds only rows that
\* carry that user's id and leaves every row of another owner as it was
C21_GatewayWritesNeedIdentity ==
  [][last'.op = "gatewayWrite" =>
       IF session = NoUser
       THEN last'.result = "unauthorized" /\ remote' = remote
       ELSE /\ last'.result # "unauthorized"
            /\ \A tbl \in Queries :
                 /\ NotOwnedBy(remote', tbl, session) = NotOwnedBy(remote, tbl, session)
                 /\ \A r \in remote'[tbl] \ remote[tbl] : r.owner_id = session
    ]_vars

\* the owner has deleted unit 1: the owner's row is gone and the row with the same id
\* of the other user is still there
C21_Witness ==
  /\ last.op = "gatewayWrite" /\ last.result = "written"
  /\ last.call.fn = "dbDeleteUnit" /\ last.owner = Owner
  /\ \E r \in remote.units : r.id = 1 /\ r.owner_id = Other
  /\ \A r \in remote.units : r.owner_id # Owner

----------------------------------------------------------------------------
(* The rate route: GET /api/rates, as a function of the environment, the    *)
(* request's authorization header and the provider's answer.                *)

\* process.env.CRON_SECRET: unset (read as the empty string) or a secret
Secrets == {"", "s3"}
\* process.env.NEXT_PUBLIC_CURRENCYAPI_KEY: unset or a key
ApiKeys == {"", "k1"}
\* the authorization header of the request, the empty string when there is none
AuthHeaders == {"", "Bearer s3", "Bearer s4", "bearer s3", "Bearer s3 ", "s3", "Bearer "}
\* the provider's answer: data.ILS.value is a number, a string, or absent, or the
\* body is not JSON at all
Answers == {[type |-> "number", num |-> Num(2)], [type |-> "number", num |-> Num(0)],
            [type |-> "string", num |-> NaN], [type |-> "undefined", num |-> NaN],
            [type |-> "not json", num |-> NaN]}

Response(status, ok, rate, called) ==
  [status |-> status, ok |-> ok, rate |-> rate, called |-> called]

\* a variant that asks the provider before it looks at the authorization header
GETCallingFirst(cronSecret, apiKey, auth, answer) ==
  IF apiKey = "" THEN Response(400, FALSE, NaN, FALSE)
  ELSE IF cronSecret # "" /\ auth # "Bearer " \o cronSecret
  THEN Response(401, FALSE, NaN, TRUE)
  ELSE IF answer.type = "number" THEN Response(200, TRUE, answer.num, TRUE)
  ELSE Response(500, FALSE, NaN, TRUE)

\* GET: the response, and whether the provider was called on the way
GET(cronSecret, apiKey, auth, answer) ==
  IF cronSecret # "" /\ auth # "Bearer " \o cronSecret
  THEN Response(401, FALSE, NaN, FALSE)
  ELSE IF apiKey = "" THEN Response(400, FALSE, NaN, FALSE)
  ELSE IF answer.type = "number" THEN Response(200, TRUE, answer.num, TRUE)
  ELSE Response(500, FALSE, NaN, TRUE)

InitRoute ==
  /\ data = DEFAULT_DATA
  /\ cache = DEFAULT_DATA
  /\ remote = EmptyRemote
  /\ inflight = {}
  /\ rateLast = 0
  /\ now = DayMs
  /\ last = [op |-> "none"]
  /\ cv = Idle
  /\ syncMsg = NoMsg
  /\ session = NoUser
  /\ route \in [pc : {"request"}, cronSecret : Secrets, apiKey : ApiKeys,
                auth : AuthHeaders, answer : Answers]

serveGET ==
  /\ route.pc = "request"
  /\ route' = [pc |-> "response", cronSecret |-> route.cronSecret, apiKey |-> route.apiKey,
               auth |-> route.auth, answer |-> route.answer,
               response |-> GET(route.cronSecret, route.apiKey, route.auth, route.answer)]
  /\ UNCHANGED <<data, cache, remote, inflight, rateLast, now, last, cv, syncMsg, session>>

NextRoute == serveGET

SpecRoute == InitRoute /\ [][NextRoute]_vars

\* C22: with a secret configured, a request whose authorization header is not exactly
\* "Bearer <secret>" is answered 401 without a call to the provider; a rate is in the
\* response only when the gate was passed and the provider's value is a number
C22_RouteGate ==
  route.pc = "response" =>
    LET gated == route.cronSecret # ""
        exact == route.auth = "Bearer " \o route.cronSecret
    IN /\ (gated /\ ~ exact) => (route.response.status = 401 /\ ~ route.response.called
                                 /\ ~ route.response.ok)
       /\ route.response.ok =>
            /\ (~ gated \/ exact)
            /\ route.answer.type = "number"
            /\ route.response.rate = route.answer.num
            /\ route.response.called

\* a header that differs from the expected one only in the case of its first letter
\* is refused, although the key is set and the provider would have answered a number
C22_Witness ==
  /\ route.pc = "response"
  /\ route.cronSecret = "s3" /\ route.auth = "bearer s3"
  /\ route.apiKey # "" /\ route.answer.type = "number"
  /\ route.response.status = 401 /\ ~ route.response.called

----------------------------------------------------------------------------
\* C23: the exchange rate in the snapshot's settings is a positive number in every
\* state of the page
C23_RateAlwaysPositive ==
  /\ data.settings.jodToIlsRate.d > 0
  /\ data.settings.jodToIlsRate.n > 0

----------------------------------------------------------------------------
\* C24: each added invoice carries the requested scope; its period is the requested
\* period when the scope is monthly, and the four characters of the requested
\* period's year when the scope is yearly
C24_StoredPeriodAndScope ==
  [][last'.op = "generateInvoices" =>
       \A k \in Added :
         LET inv == data'.invoices[k] IN
         /\ inv.scope = last'.scope
         /\ last'.scope = "monthly" => inv.period = last'.period
         /\ last'.scope = "yearly" =>
              /\ Len(inv.period) = 4
              /\ \A i \in 1..4 : inv.period[i] = last'.period[i]
    ]_vars

\* a yearly generation requested for 2024-01 has added an invoice for 2024
C24_Witness ==
  /\ last.op = "generateInvoices" /\ last.scope = "yearly" /\ last.period = P2024_01
  /\ \E i \in Range(data.invoices) :
       /\ i.period = P2024 /\ i.scope = "yearly"
       /\ \E c \in inflight : c.fn = "dbInsertInvoice" /\ c.id = i.id

\* the positions of the tenants of snapshot d that are eligible, in increasing order
RECURSIVE EligiblePositions(_, _, _, _)
EligiblePositions(d, scope, filter, from) ==
  IF from > Len(d.tenants) THEN <<>>
  ELSE (IF Eligible(d, d.tenants[from], scope, filter) THEN <<from>> ELSE <<>>)
       \o EligiblePositions(d, scope, filter, from + 1)

\* C25: after a generation the invoice list is the new invoices, one for each eligible
\* tenant in the order of the tenant list, followed by the invoices that were there
\* before, in their order and as they were; the other collections and the settings
\* are as before
C25_GeneratePrepends ==
  [][last'.op = "generateInvoices" =>
       LET pos == EligiblePositions(data, last'.scope, last'.filter, 1)
           k == Len(pos)
       IN /\ Len(data'.invoices) = k + Len(data.invoices)
          /\ \A i \in 1..k : /\ data'.invoices[i].tenantId = data.tenants[pos[i]].id
                             /\ data'.invoices[i].id \notin Ids(data.invoices)
          /\ \A j \in 1..Len(data.invoices) : data'.invoices[k + j] = data.invoices[j]
          /\ data'.units = data.units
          /\ data'.tenants = data.tenants
          /\ data'.utilities = data.utilities
          /\ data'.payments = data.payments
          /\ data'.settings = data.settings
    ]_vars

\* a generation has put one new invoice in front of the invoice that was there
C25_Witness ==
  /\ last.op = "generateInvoices"
  /\ Len(data.invoices) = 2
  /\ \E c \in inflight : c.fn = "dbInsertInvoice" /\ c.id = data.invoices[1].id
  /\ \A c \in inflight : c.id # data.invoices[2].id
  /\ \E r \in remote.invoices : r.id = data.invoices[2].id

----------------------------------------------------------------------------
(* The reopening specification: a page showing a stored snapshot in which   *)
(* every reference resolves; the owner removes units and tenants, the       *)
(* deletes settle, and the page is opened again and loads.                  *)

NextReopen ==
  \/ (inflight = {} /\ \E id \in 1..MaxUnits : removeUnit(id))
  \/ (inflight = {} /\ \E id \in 1..MaxTenants : removeTenant(id))
  \/ \E c \in inflight : writeOk(c)
  \/ \E c \in inflight : writeFail(c)
  \/ \E c \in inflight, r \in FetchedRates : fetchRateOk(c, r)
  \/ \E c \in inflight : fetchRateFail(c)
  \/ mount
  \/ loadOk

\* an apartment and a shop with an active tenant each and a charge each, all stored
InitReopen ==
  Quiescent([StoredData EXCEPT
               !.utilities = OnePerUnit(Min(MaxUnits, MaxUtilities),
                                        [period |-> P2024_01, amount |-> Num(50),
                                         currency |-> "JOD"])])

SpecReopen == InitReopen /\ [][NextReopen]_vars

\* C26: in every state of the page each tenant and each utility charge names a unit of
\* the snapshot, and each invoice and each payment names a unit and a tenant of the
\* snapshot
C26_ReferentialIntegrity ==
  /\ \A t \in Range(data.tenants) : t.unitId \in Ids(data.units)
  /\ \A u \in Range(data.utilities) : u.unitId \in Ids(data.units)
  /\ \A i \in Range(data.invoices) :
       i.unitId \in Ids(data.units) /\ i.tenantId \in Ids(data.tenants)
  /\ \A p \in Range(data.payments) :
       p.unitId \in Ids(data.units) /\ p.tenantId \in Ids(data.tenants)

----------------------------------------------------------------------------
\* C27: when the settings write of a refresh, automatic or manual, succeeds, the base
\* currency of the snapshot stays what it was, and the base currency written to the
\* store's settings row is the base currency of the snapshot
C27_RefreshWritesCurrentBase ==
  [][\A c \in inflight :
       (last'.op = "writeOk" /\ Settled(c) /\ "then" \in DOMAIN c) =>
         /\ data'.settings.baseCurrency = data.settings.baseCurrency
         /\ c.arg.base_currency = data.settings.baseCurrency
         /\ \A r \in remote'.settings : r.base_currency = data'.settings.baseCurrency
    ]_vars

----------------------------------------------------------------------------
(* The early-action specification: the page has just mounted over a store   *)
(* that holds one rented unit, the rate having been refreshed just before,  *)
(* and the owner adds records while the initial fetch is still pending.     *)

InitEarly ==
  /\ data = DEFAULT_DATA
  /\ cache = DEFAULT_DATA
  /\ remote = Mirror([DEFAULT_DATA EXCEPT !.units = OnePerUnitKind(1),
                                          !.tenants = OnePerUnit(1, [active |-> TRUE])])
  /\ rateLast = DayMs
  /\ now = DayMs
  /\ inflight = {FetchAll} \cup dailyEffect(DEFAULT_DATA)
  /\ last = [op |-> "mount", cached |-> DEFAULT_DATA]
  /\ cv = Idle
  /\ syncMsg = NoMsg
  /\ session = Owner
  /\ route = NoRoute

EarlyAction ==
  \/ \E k \in UnitKind, a \in RentAmounts, c \in Currency : addUnit(k, a, c)
  \/ \E u \in 1..MaxUnits, a \in BOOLEAN : addTenant(u, a)
  \/ \E u \in 1..MaxUnits, a \in UtilityAmounts : addUtility(u, P2024_01, a, "JOD")
  \/ \E s \in Scope : generateInvoices(s, P2024_01, NoFilter)
  \/ \E t \in 1..MaxTenants, a \in PaymentAmounts : addPayment(t, a, "JOD")

\* the owner acts while the fetch is pending and no more than MaxPending calls are
NextEarly ==
  \/ (FetchAll \in inflight /\ Cardinality(inflight) <= MaxPending /\ EarlyAction)
  \/ \E c \in inflight : writeOk(c)
  \/ \E c \in inflight : writeFail(c)
  \/ loadOk
  \/ loadFail

SpecEarly == InitEarly /\ [][NextEarly]_vars

\* the lists of the snapshot
Lists == {"units", "tenants", "utilities", "invoices", "payments"}

\* C28: every record that is in a list of the snapshot when the result of the initial
\* fetch is applied is still in that list afterwards
C28_LoadKeepsLocalRecords ==
  [][last'.op = "loadOk" =>
       \A tbl \in Lists : Ids(data[tbl]) \subseteq Ids(data'[tbl])
    ]_vars

----------------------------------------------------------------------------
(* The toggle specification: the owner flips tenants' active flags, also    *)
(* while an earlier update is pending, and every update succeeds; the store *)
(* applies the pending updates in any order.                                *)

NextToggle ==
  \/ (Cardinality(inflight) <= MaxPending /\ \E id \in 1..MaxTenants : toggleActive(id))
  \/ \E c \in inflight : writeOk(c)

SpecToggle == InitReopen /\ [][NextToggle]_vars

\* C29: once every update of the toggles has succeeded, the active flag of each tenant
\* in the store is its active flag in the snapshot
C29_RemoteFlagFollowsLocal ==
  inflight = {} =>
    \A t \in Range(data.tenants) :
      \E r \in remote.tenants : r.id = t.id /\ r.active = t.active

----------------------------------------------------------------------------
\* C30: when the initial fetch ends while nobody is signed in, it ends with the empty
\* result and not with a failure: the settings stay what they were and the five lists
\* become empty, whatever the store and the cache hold; when somebody is signed in, it
\* ends with a failure whenever one of the six queries reports an error, and with the
\* owner's rows otherwise
C30_FetchWithoutIdentity ==
  [][(FetchAll \in inflight /\ FetchAll \notin inflight') =>
       IF session = NoUser
       THEN /\ last'.op = "loadNoIdentity"
            /\ data'.settings = data.settings
            /\ \A tbl \in Lists : data'[tbl] = <<>>
       ELSE /\ last'.errs # {} => last'.op = "loadFail"
            /\ last'.errs = {} => last'.op = "loadOk"
    ]_vars

\* the page was opened after signing out: the store holds the owner's units, and the
\* load has left the snapshot with the settings it had and no unit
C30_Witness ==
  /\ last.op = "loadNoIdentity"
  /\ session = NoUser
  /\ remote.units # {}
  /\ \A tbl \in Lists : data[tbl] = <<>>
  /\ data.settings = DEFAULT_DATA.settings

====
